---- MODULE Spec2Model ----
(***************************************************************************)
(* unic-locale-impl: extension classification, the two extension-subtag    *)
(* parsers (list dispatch in extensions/mod.rs, key/value state machine in *)
(* parser/mod.rs), the ExtensionsMap aggregate and Locale.                 *)
(*                                                                         *)
(* Strings and subtags are sequences of bytes (ASCII codes):               *)
(*   '-' 45   '_' 95   '!' 33   '0'..'9' 48..57   'A'..'Z' 65..90          *)
(*   'a'..'z' 97..122  ('a' 97, 'c' 99, 'f' 102, 'o' 111, 't' 116,         *)
(*   'u' 117, 'x' 120)                                                     *)
(* Option<T> is a sequence of length 0 (None) or 1 (Some).                 *)
(***************************************************************************)
EXTENDS Integers, Sequences, FiniteSets, TLC

VARIABLES byte, cls, input, l, sm, text, locale, shown, mres, sres

vars == <<byte, cls, input, l, sm, text, locale, shown, mres, sres>>

(***************************************************************************)
(* Bounds of the model.                                                    *)
(***************************************************************************)
\* Longest token stream fed to the two extension parsers.
MaxTokens == 4

\* Longest extension token stream of a locale string.
MaxLocaleTokens == 3

\* Longest token stream of a string that is parsed and serialized back.
MaxRoundTokens == 4

(***************************************************************************)
(* Option and Result.                                                      *)
(***************************************************************************)
None == << >>

Some(v) == << v >>

IsSome(o) == Len(o) = 1

Unwrap(o) == o[1]

Ok(v) == [ok |-> TRUE, val |-> v]

Err(e) == [ok |-> FALSE, err |-> e]

(***************************************************************************)
(* std helpers on bytes.                                                   *)
(***************************************************************************)
Bytes == 0..255

to_ascii_lowercase(b) == IF b \in 65..90 THEN b + 32 ELSE b

is_ascii_alphanumeric(b) == b \in 48..57 \/ b \in 65..90 \/ b \in 97..122

str_to_ascii_lowercase(s) == [i \in 1..Len(s) |-> to_ascii_lowercase(s[i])]

(***************************************************************************)
(* ExtensionType (extensions/mod.rs 28-63).                                *)
(***************************************************************************)
Unicode == [tag |-> "Unicode"]

Transform == [tag |-> "Transform"]

Private == [tag |-> "Private"]

Other(c) == [tag |-> "Other", ch |-> c]

\* A plausible slip: the byte is classified without being lowercased first.
from_byte_nofold(key) ==
    CASE key = 117 -> Ok(Unicode)
      [] key = 116 -> Ok(Transform)
      [] key = 120 -> Ok(Private)
      [] key \notin {116, 117, 120} /\ is_ascii_alphanumeric(key) -> Ok(Other(key))
      [] OTHER -> Err("InvalidExtension")

from_byte(key) ==
    LET k == to_ascii_lowercase(key)
    IN  CASE k = 117 -> Ok(Unicode)
          [] k = 116 -> Ok(Transform)
          [] k = 120 -> Ok(Private)
          [] k \notin {116, 117, 120} /\ is_ascii_alphanumeric(k) -> Ok(Other(k))
          [] OTHER -> Err("InvalidExtension")

\* impl Display for ExtensionType: the single defining character.
ExtensionTypeDisplay(t) ==
    CASE t.tag = "Unicode" -> <<117>>
      [] t.tag = "Transform" -> <<116>>
      [] t.tag = "Other" -> <<t.ch>>
      [] t.tag = "Private" -> <<120>>

(***************************************************************************)
(* Splitting and joining on separators.                                    *)
(***************************************************************************)
\* parser/mod.rs line 8, and the closure of extensions/mod.rs line 76.
SEPARATORS == {45, 95}

RECURSIVE SplitFrom(_, _, _)
\* slice::split / str::split: one token per separator plus one, empty tokens kept.
SplitFrom(s, i, cur) ==
    IF i > Len(s) THEN << cur >>
    ELSE IF s[i] \in SEPARATORS THEN << cur >> \o SplitFrom(s, i + 1, << >>)
    ELSE SplitFrom(s, i + 1, Append(cur, s[i]))

Split(s) == SplitFrom(s, 1, << >>)

RECURSIVE Join(_, _)
\* [T]::join(sep)
Join(ts, sep) ==
    IF Len(ts) = 0 THEN << >>
    ELSE IF Len(ts) = 1 THEN ts[1]
    ELSE ts[1] \o sep \o Join(Tail(ts), sep)

(***************************************************************************)
(* Per-type extension lists (extensions/unicode.rs, transform.rs,          *)
(* private.rs: not among the source files; modelled from the              *)
(* collaborator contract of the specification).  A list is the ordered     *)
(* sequence of its entries, an entry a key with an optional value.         *)
(***************************************************************************)
\* A subtag a collaborator accepts: non-empty, ASCII alphanumeric.
ValidSubtag(tok) == Len(tok) > 0 /\ \A i \in 1..Len(tok) : is_ascii_alphanumeric(tok[i])

Entry(k, v) == [key |-> k, value |-> v]

ListIsEmpty(list) == Len(list) = 0

HasKey(list, k) == \E i \in 1..Len(list) : list[i].key = k

\* Keys are unique within a list: a key already present gets the new value.
ListSetValue(list, k, v) ==
    IF ~ValidSubtag(k) \/ (IsSome(v) /\ ~ValidSubtag(Unwrap(v)))
    THEN Err("rejected")
    ELSE IF HasKey(list, k)
         THEN Ok([i \in 1..Len(list) |-> IF list[i].key = k THEN Entry(k, v) ELSE list[i]])
         ELSE Ok(Append(list, Entry(k, v)))

\* UnicodeExtensionKey::from_str
UnicodeExtensionKeyFromStr(tok) == IF ValidSubtag(tok) THEN Ok(tok) ELSE Err("key")

RECURSIVE SectionLen(_)
\* The tokens of one section: up to the next singleton or the end of input.
SectionLen(iter) ==
    IF Len(iter) = 0 \/ Len(Head(iter)) = 1 THEN 0 ELSE 1 + SectionLen(Tail(iter))

RECURSIVE ListFromTokens(_, _)
ListFromTokens(list, toks) ==
    IF Len(toks) = 0 THEN Ok(list)
    ELSE LET v == IF Len(toks) >= 2 THEN Some(toks[2]) ELSE None
             r == ListSetValue(list, toks[1], v)
         IN  IF ~r.ok THEN Err("InvalidExtension")
             ELSE ListFromTokens(r.val, IF Len(toks) >= 2 THEN Tail(Tail(toks)) ELSE << >>)

\* <List>::try_from_iter: consumes exactly its section, leaves the iterator at
\* the next singleton (or the end).
ListTryFromIter(iter) ==
    LET n == SectionLen(iter)
    IN  [res |-> ListFromTokens(<< >>, SubSeq(iter, 1, n)),
         iter |-> SubSeq(iter, n + 1, Len(iter))]

RECURSIVE EntriesDisplay(_)
EntriesDisplay(list) ==
    IF Len(list) = 0 THEN << >>
    ELSE <<45>> \o Head(list).key
         \o (IF IsSome(Head(list).value) THEN <<45>> \o Unwrap(Head(list).value) ELSE << >>)
         \o EntriesDisplay(Tail(list))

\* Display of a per-type list: nothing when empty, else "-<singleton>" and
\* each entry preceded by "-".
ListDisplay(letter, list) ==
    IF ListIsEmpty(list) THEN << >> ELSE <<45, letter>> \o EntriesDisplay(list)

(***************************************************************************)
(* ExtensionsMap (extensions/mod.rs 65-127).                               *)
(***************************************************************************)
ExtensionsMapDefault ==
    [unicode |-> << >>, transform |-> << >>, other |-> << >>, private |-> << >>]

get_private(m) == m.private

\* ExtensionsMap::set_unicode_value / set_transform_value / set_private_value
set_unicode_value(m, k, v) ==
    LET r == ListSetValue(m.unicode, k, v)
    IN  IF r.ok THEN Ok([m EXCEPT !.unicode = r.val]) ELSE r

set_transform_value(m, k, v) ==
    LET r == ListSetValue(m.transform, k, v)
    IN  IF r.ok THEN Ok([m EXCEPT !.transform = r.val]) ELSE r

set_private_value(m, k, v) ==
    LET r == ListSetValue(m.private, k, v)
    IN  IF r.ok THEN Ok([m EXCEPT !.private = r.val]) ELSE r

\* A plausible slip: the private list is left out of the emptiness test.
is_empty_noprivate(m) == ListIsEmpty(m.unicode) /\ ListIsEmpty(m.transform)

is_empty(m) ==
    ListIsEmpty(m.unicode) /\ ListIsEmpty(m.transform) /\ ListIsEmpty(m.private)

\* A plausible slip: the sections are written in struct-field order.
ExtensionsMapDisplay_fieldorder(m) ==
    ListDisplay(117, m.unicode) \o ListDisplay(116, m.transform)
        \o ListDisplay(120, m.private)

\* impl Display for ExtensionsMap: transform, unicode, private; `other` is
\* not written.
ExtensionsMapDisplay(m) ==
    ListDisplay(116, m.transform) \o ListDisplay(117, m.unicode)
        \o ListDisplay(120, m.private)

(***************************************************************************)
(* List-dispatch mode: ExtensionsMap::from_bytes / try_from_iter           *)
(* (extensions/mod.rs 75-105).  The state of one run:                      *)
(*   pc      "start" | "loop" | "done"                                     *)
(*   iter    the tokens the peekable iterator still holds                  *)
(*   st      the token taken at dispatch position (Option)                 *)
(*   result  the ExtensionsMap being built                                 *)
(*   ret     "none" | "Ok" | "InvalidExtension" | "Panic"                  *)
(*   calls   the collaborator calls made, in order                         *)
(***************************************************************************)
LIdle ==
    [pc |-> "start", iter |-> << >>, st |-> None, result |-> ExtensionsMapDefault,
     ret |-> "none", calls |-> << >>]

\* Iterator::next
IterNext(iter) ==
    IF Len(iter) = 0 THEN [item |-> None, iter |-> << >>]
    ELSE [item |-> Some(Head(iter)), iter |-> Tail(iter)]

\* Lines 83-85: the default map and the first iter.next().
TryFromIterEnter(iter) ==
    LET n == IterNext(iter)
    IN  [pc |-> "loop", iter |-> n.iter, st |-> n.item, result |-> ExtensionsMapDefault,
         ret |-> "none", calls |-> << >>]

\* Lines 75-77: split on '-' and '_', then try_from_iter.
FromBytesEnter(bytes) == TryFromIterEnter(Split(bytes))

\* Line 101, after a section has been assigned.
LAdvance(s, result, iter, call) ==
    LET n == IterNext(iter)
    IN  [s EXCEPT !.result = result, !.iter = n.iter, !.st = n.item,
                  !.calls = s.calls \o call]

LFail(s, ret, call) == [s EXCEPT !.pc = "done", !.ret = ret, !.calls = s.calls \o call]

\* Lines 87-99: the dispatch on the first byte of the token.
LDispatch(s) ==
    LET subtag == Unwrap(s.st)
        c == IF Len(subtag) = 0 THEN None ELSE Some(from_byte(subtag[1]))
        r == ListTryFromIter(s.iter)
        known == IsSome(c) /\ Unwrap(c).ok
                   /\ Unwrap(c).val.tag \in {"Unicode", "Transform", "Private"}
        call == IF known THEN << Unwrap(c).val.tag >> ELSE << >>
    IN  CASE ~IsSome(c) -> LAdvance(s, s.result, s.iter, << >>)
          [] known /\ ~r.res.ok -> LFail(s, r.res.err, call)
          [] known /\ r.res.ok /\ Unwrap(c).val.tag = "Unicode" ->
                LAdvance(s, [s.result EXCEPT !.unicode = r.res.val], r.iter, call)
          [] known /\ r.res.ok /\ Unwrap(c).val.tag = "Transform" ->
                LAdvance(s, [s.result EXCEPT !.transform = r.res.val], r.iter, call)
          [] known /\ r.res.ok /\ Unwrap(c).val.tag = "Private" ->
                LAdvance(s, [s.result EXCEPT !.private = r.res.val], r.iter, call)
          [] OTHER -> LFail(s, "Panic", << >>)

\* Lines 86-104: one turn of `while let Some(subtag) = st`, or the return.
LStep(s) ==
    IF ~IsSome(s.st) THEN [s EXCEPT !.pc = "done", !.ret = "Ok"]
    ELSE LDispatch(s)

RECURSIVE LRun(_)
LRun(s) == IF s.pc = "done" THEN s ELSE LRun(LStep(s))

\* ExtensionsMap::from_bytes, run to its end.
from_bytes(bytes) == LRun(FromBytesEnter(bytes))

(***************************************************************************)
(* State-machine mode: parse_extension_subtags (parser/mod.rs 21-107).     *)
(*   pc            "start" | "loop" | "done"                               *)
(*   rest          the tokens the split iterator still holds               *)
(*   current_type  Option<ExtensionType>                                   *)
(*   current_key   Option<&str>                                            *)
(*   result        the ExtensionsMap being built                           *)
(*   ret           "none" | "Ok" | "InvalidExtension" | "InvalidSubtag"    *)
(*   calls         the set_<type>_value calls made, in order               *)
(***************************************************************************)
SMIdle ==
    [pc |-> "start", rest |-> << >>, current_type |-> None, current_key |-> None,
     result |-> ExtensionsMapDefault, ret |-> "none", calls |-> << >>]

\* `subtag.parse()` into ExtensionType: the state machine knows the three
\* types its matches name.
ExtensionTypeFromStr(subtag) ==
    CASE subtag = <<117>> -> Ok(Unicode)
      [] subtag = <<116>> -> Ok(Transform)
      [] subtag = <<120>> -> Ok(Private)
      [] OTHER -> Err("unknown")

Call(ty, k, v) == [type |-> ty.tag, key |-> k, value |-> v]

\* The match on current_type (lines 35-50, 61-76, 86-101): the key is parsed
\* first for Unicode, then set_<type>_value; every failure is InvalidExtension.
Flush(s, ty, k, v) ==
    LET keyr == UnicodeExtensionKeyFromStr(k)
        r == CASE ty.tag = "Unicode" -> set_unicode_value(s.result, k, v)
               [] ty.tag = "Transform" -> set_transform_value(s.result, k, v)
               [] ty.tag = "Private" -> set_private_value(s.result, k, v)
    IN  IF ty.tag = "Unicode" /\ ~keyr.ok
        THEN [ok |-> FALSE, result |-> s.result, calls |-> s.calls]
        ELSE [ok |-> r.ok,
              result |-> IF r.ok THEN r.val ELSE s.result,
              calls |-> Append(s.calls, Call(ty, k, v))]

SMFail(s, ret) == [s EXCEPT !.pc = "done", !.ret = ret]

\* A plausible slip: the early return on the empty string is missing.
ParseExtensionSubtagsEnter_noempty(t) == [SMIdle EXCEPT !.pc = "loop", !.rest = Split(t)]

\* Lines 22-30.
ParseExtensionSubtagsEnter(t) ==
    IF Len(t) = 0 THEN [SMIdle EXCEPT !.pc = "done", !.ret = "Ok"]
    ELSE [SMIdle EXCEPT !.pc = "loop", !.rest = Split(t)]

\* A plausible slip: a singleton that does not classify is reported as
\* InvalidSubtag.
SMSingleton_subtagerr(s, subtag) ==
    LET ty == ExtensionTypeFromStr(subtag)
        f == Flush(s, Unwrap(s.current_type), Unwrap(s.current_key), None)
        flushed == IF IsSome(s.current_key)
                   THEN [s EXCEPT !.result = f.result, !.calls = f.calls,
                                  !.current_key = None]
                   ELSE s
    IN  IF IsSome(s.current_key) /\ ~IsSome(s.current_type)
        THEN SMFail([s EXCEPT !.current_key = None], "InvalidExtension")
        ELSE IF IsSome(s.current_key) /\ ~f.ok
        THEN SMFail(flushed, "InvalidExtension")
        ELSE IF ~ty.ok
        THEN SMFail(flushed, "InvalidSubtag")
        ELSE [flushed EXCEPT !.current_type = Some(ty.val), !.rest = Tail(s.rest)]

\* A plausible slip: current_type is reset before the pending key is flushed,
\* so the key lands in the section the singleton opens.
SMSingleton_newtype(s, subtag) ==
    LET ty == ExtensionTypeFromStr(subtag)
        f == Flush(s, IF ty.ok THEN ty.val ELSE Unwrap(s.current_type),
                   Unwrap(s.current_key), None)
        flushed == IF IsSome(s.current_key)
                   THEN [s EXCEPT !.result = f.result, !.calls = f.calls,
                                  !.current_key = None]
                   ELSE s
    IN  IF IsSome(s.current_key) /\ ~IsSome(s.current_type)
        THEN SMFail([s EXCEPT !.current_key = None], "InvalidExtension")
        ELSE IF IsSome(s.current_key) /\ ~f.ok
        THEN SMFail(flushed, "InvalidExtension")
        ELSE IF ~ty.ok
        THEN SMFail(flushed, "InvalidExtension")
        ELSE [flushed EXCEPT !.current_type = Some(ty.val), !.rest = Tail(s.rest)]

\* Lines 32-57: a one-character subtag.
SMSingleton(s, subtag) ==
    LET ty == ExtensionTypeFromStr(subtag)
        f == Flush(s, Unwrap(s.current_type), Unwrap(s.current_key), None)
        flushed == IF IsSome(s.current_key)
                   THEN [s EXCEPT !.result = f.result, !.calls = f.calls,
                                  !.current_key = None]
                   ELSE s
    IN  IF IsSome(s.current_key) /\ ~IsSome(s.current_type)
        THEN SMFail([s EXCEPT !.current_key = None], "InvalidExtension")
        ELSE IF IsSome(s.current_key) /\ ~f.ok
        THEN SMFail(flushed, "InvalidExtension")
        ELSE IF ~ty.ok
        THEN SMFail(flushed, "InvalidExtension")
        ELSE [flushed EXCEPT !.current_type = Some(ty.val), !.rest = Tail(s.rest)]

\* A plausible slip: a subtag met before any singleton is reported as
\* InvalidExtension.
SMKeyValue_wrongerr(s, subtag) ==
    LET f == Flush(s, Unwrap(s.current_type), Unwrap(s.current_key), Some(subtag))
    IN  IF ~IsSome(s.current_type) THEN SMFail(s, "InvalidExtension")
        ELSE IF ~IsSome(s.current_key)
        THEN [s EXCEPT !.current_key = Some(subtag), !.rest = Tail(s.rest)]
        ELSE IF ~f.ok
        THEN SMFail([s EXCEPT !.calls = f.calls, !.current_key = None], "InvalidExtension")
        ELSE [s EXCEPT !.result = f.result, !.calls = f.calls, !.current_key = None,
                       !.rest = Tail(s.rest)]

\* A plausible slip: a subtag becomes the pending key before current_type is
\* looked at.
SMKeyValue_keyfirst(s, subtag) ==
    LET f == Flush(s, Unwrap(s.current_type), Unwrap(s.current_key), Some(subtag))
    IN  IF ~IsSome(s.current_key)
        THEN [s EXCEPT !.current_key = Some(subtag), !.rest = Tail(s.rest)]
        ELSE IF ~IsSome(s.current_type) THEN SMFail(s, "InvalidSubtag")
        ELSE IF ~f.ok
        THEN SMFail([s EXCEPT !.calls = f.calls, !.current_key = None], "InvalidExtension")
        ELSE [s EXCEPT !.result = f.result, !.calls = f.calls, !.current_key = None,
                       !.rest = Tail(s.rest)]

\* A plausible slip: the pending key is read but not taken, so it stays
\* pending after its value has been flushed.
SMKeyValue_keepkey(s, subtag) ==
    LET f == Flush(s, Unwrap(s.current_type), Unwrap(s.current_key), Some(subtag))
    IN  IF ~IsSome(s.current_type) THEN SMFail(s, "InvalidSubtag")
        ELSE IF ~IsSome(s.current_key)
        THEN [s EXCEPT !.current_key = Some(subtag), !.rest = Tail(s.rest)]
        ELSE IF ~f.ok
        THEN SMFail([s EXCEPT !.calls = f.calls], "InvalidExtension")
        ELSE [s EXCEPT !.result = f.result, !.calls = f.calls, !.rest = Tail(s.rest)]

\* Lines 59-82: a subtag of any other length.
SMKeyValue(s, subtag) ==
    LET f == Flush(s, Unwrap(s.current_type), Unwrap(s.current_key), Some(subtag))
    IN  IF ~IsSome(s.current_type) THEN SMFail(s, "InvalidSubtag")
        ELSE IF ~IsSome(s.current_key)
        THEN [s EXCEPT !.current_key = Some(subtag), !.rest = Tail(s.rest)]
        ELSE IF ~f.ok
        THEN SMFail([s EXCEPT !.calls = f.calls, !.current_key = None], "InvalidExtension")
        ELSE [s EXCEPT !.result = f.result, !.calls = f.calls, !.current_key = None,
                       !.rest = Tail(s.rest)]

\* Lines 84-106: the flush at the end of input and the return.
SMFinish(s) ==
    LET f == Flush(s, Unwrap(s.current_type), Unwrap(s.current_key), None)
    IN  IF ~IsSome(s.current_key) THEN [s EXCEPT !.pc = "done", !.ret = "Ok"]
        ELSE IF ~IsSome(s.current_type)
        THEN SMFail([s EXCEPT !.current_key = None], "InvalidSubtag")
        ELSE IF ~f.ok
        THEN SMFail([s EXCEPT !.calls = f.calls, !.current_key = None], "InvalidExtension")
        ELSE [s EXCEPT !.pc = "done", !.ret = "Ok", !.result = f.result,
                       !.calls = f.calls, !.current_key = None]

\* One turn of the `for subtag in t.split(..)` loop, or what follows it.
SMStep(s) ==
    IF Len(s.rest) = 0 THEN SMFinish(s)
    ELSE IF Len(Head(s.rest)) = 1 THEN SMSingleton(s, Head(s.rest))
    ELSE SMKeyValue(s, Head(s.rest))

RECURSIVE SMRun(_)
SMRun(s) == IF s.pc = "done" THEN s ELSE SMRun(SMStep(s))

\* parse_extension_subtags, run to its end.
parse_extension_subtags(t) == SMRun(ParseExtensionSubtagsEnter(t))

(***************************************************************************)
(* Locale (lib.rs) and parse_locale (parser/mod.rs 10-19).  A Locale is    *)
(* [langid, extensions].  The language identifier belongs to the crate     *)
(* unic_langid_impl: it is kept as the sequence of its lowercased subtags  *)
(* and displayed joined with '-'; the answer of its `matches` is an input. *)
(***************************************************************************)
Locale(langid, extensions) == [langid |-> langid, extensions |-> extensions]

RECURSIVE FirstSingleton(_, _)
\* Index of the first one-character token at or after i, 0 when there is none.
FirstSingleton(toks, i) ==
    IF i > Len(toks) THEN 0
    ELSE IF Len(toks[i]) = 1 THEN i
    ELSE FirstSingleton(toks, i + 1)

RECURSIVE OffsetOf(_, _)
\* Bytes of the string before token n: the tokens before it and their separators.
OffsetOf(toks, n) == IF n <= 1 THEN 0 ELSE Len(toks[n - 1]) + 1 + OffsetOf(toks, n - 1)

ValidLangSubtag(tok) ==
    Len(tok) >= 2 /\ \A i \in 1..Len(tok) : is_ascii_alphanumeric(tok[i])

\* parse_language_identifier(t, true): the subtags before the first singleton
\* make the language identifier, the rest of `t` from that singleton on is
\* handed back as the extensions string.
parse_language_identifier(t) ==
    LET toks == Split(t)
        n == FirstSingleton(toks, 1)
        lang == IF n = 0 THEN toks ELSE SubSeq(toks, 1, n - 1)
    IN  IF Len(lang) = 0 \/ \E i \in 1..Len(lang) : ~ValidLangSubtag(lang[i])
        THEN Err("InvalidLanguage")
        ELSE Ok([langid |-> [i \in 1..Len(lang) |-> str_to_ascii_lowercase(lang[i])],
                 ext_str |-> IF n = 0 THEN None
                             ELSE Some(SubSeq(t, OffsetOf(toks, n) + 1, Len(t)))])

\* LanguageIdentifier's Display.
LangidDisplay(langid) == Join(langid, <<45>>)

\* A plausible slip: the extensions string is not lowercased before parsing.
parse_locale_nolower(t) ==
    LET p == parse_language_identifier(t)
        e == parse_extension_subtags(Unwrap(p.val.ext_str))
    IN  IF ~p.ok THEN p
        ELSE IF ~IsSome(p.val.ext_str) THEN Ok(Locale(p.val.langid, ExtensionsMapDefault))
        ELSE IF e.ret # "Ok" THEN Err(e.ret)
        ELSE Ok(Locale(p.val.langid, e.result))

\* parser/mod.rs 10-19.
parse_locale(t) ==
    LET p == parse_language_identifier(t)
        e == parse_extension_subtags(str_to_ascii_lowercase(Unwrap(p.val.ext_str)))
    IN  IF ~p.ok THEN p
        ELSE IF ~IsSome(p.val.ext_str) THEN Ok(Locale(p.val.langid, ExtensionsMapDefault))
        ELSE IF e.ret # "Ok" THEN Err(e.ret)
        ELSE Ok(Locale(p.val.langid, e.result))

\* impl Display for Locale (lib.rs 161-171).
LocaleDisplay(loc) ==
    LET ext == ExtensionsMapDisplay(loc.extensions)
        subtags == << LangidDisplay(loc.langid) >>
                       \o (IF Len(ext) # 0 THEN << ext >> ELSE << >>)
    IN  Join(subtags, <<45>>)

\* canonicalize (lib.rs 173-176).
canonicalize(t) ==
    LET r == parse_locale(t) IN IF r.ok THEN Ok(LocaleDisplay(r.val)) ELSE r

\* A plausible slip: only self's private list is looked at.
matches_selfonly(self, other, langid_matches) ==
    IF ~ListIsEmpty(get_private(self.extensions)) THEN FALSE ELSE langid_matches

\* Locale::matches (lib.rs 52-64); langid_matches is what
\* self.langid.matches(&other.langid, self_as_range, other_as_range) answers.
matches(self, other, langid_matches) ==
    IF ~ListIsEmpty(get_private(self.extensions))
          \/ ~ListIsEmpty(get_private(other.extensions))
    THEN FALSE
    ELSE langid_matches

\* A plausible slip: the key is forwarded without being parsed first.
set_extension_nokeyparse(self, extension, key, value) ==
    IF extension.tag = "Unicode"
    THEN LET r == set_unicode_value(self.extensions, key, value)
         IN  [locale |-> IF r.ok THEN [self EXCEPT !.extensions = r.val] ELSE self,
              ret |-> IF r.ok THEN "Ok" ELSE r.err,
              calls |-> << Call(extension, key, value) >>]
    ELSE [locale |-> self, ret |-> "Panic", calls |-> << >>]

\* Locale::set_extension (lib.rs 106-119): the locale after the call, what
\* the call returns, and the set_<type>_value calls it made.
set_extension(self, extension, key, value) ==
    IF extension.tag = "Unicode"
    THEN LET k == UnicodeExtensionKeyFromStr(key)
             r == set_unicode_value(self.extensions, k.val, value)
         IN  IF ~k.ok
             THEN [locale |-> self, ret |-> k.err, calls |-> << >>]
             ELSE [locale |-> IF r.ok THEN [self EXCEPT !.extensions = r.val] ELSE self,
                   ret |-> IF r.ok THEN "Ok" ELSE r.err,
                   calls |-> << Call(extension, k.val, value) >>]
    ELSE [locale |-> self, ret |-> "Panic", calls |-> << >>]

(***************************************************************************)
(* Inputs.                                                                 *)
(***************************************************************************)
\* "u", "t", "x", "a", "!", "", "ca", "foo"
Tokens ==
    { <<117>>, <<116>>, <<120>>, <<97>>, <<33>>, << >>, <<99, 97>>, <<102, 111, 111>> }

TokenStreams == UNION { [1..n -> Tokens] : n \in 1..MaxTokens }

\* Extension strings: token streams joined with '-'.
Inputs == { Join(ts, <<45>>) : ts \in TokenStreams }

\* The extension strings of locale strings.
LocaleInputs ==
    { Join(ts, <<45>>) : ts \in UNION { [1..n -> Tokens] : n \in 1..MaxLocaleTokens } }

(***************************************************************************)
(* Spec: both parsers on one input, list dispatch first.                   *)
(***************************************************************************)
ClsIdle == Err("none")

LocaleIdle == Err("none")

SetIdle == [done |-> FALSE]

MatchIdle == [done |-> FALSE]

Init ==
    /\ byte = 0
    /\ cls = ClsIdle
    /\ input \in Inputs
    /\ l = LIdle
    /\ sm = SMIdle
    /\ text = << >>
    /\ locale = LocaleIdle
    /\ shown = None
    /\ mres = MatchIdle
    /\ sres = SetIdle

\* ExtensionsMap::from_bytes(input) is called.
LFromBytes ==
    /\ l.pc = "start"
    /\ l' = FromBytesEnter(input)
    /\ UNCHANGED <<byte, cls, input, sm, text, locale, shown, mres, sres>>

\* One turn of try_from_iter's loop.
LLoop ==
    /\ l.pc = "loop"
    /\ l' = LStep(l)
    /\ UNCHANGED <<byte, cls, input, sm, text, locale, shown, mres, sres>>

\* parse_extension_subtags(input) is called (once the first parse is over).
SMCall ==
    /\ l.pc = "done"
    /\ sm.pc = "start"
    /\ sm' = ParseExtensionSubtagsEnter(input)
    /\ UNCHANGED <<byte, cls, input, l, text, locale, shown, mres, sres>>

\* One turn of parse_extension_subtags's loop, or its final flush.
SMLoop ==
    /\ sm.pc = "loop"
    /\ sm' = SMStep(sm)
    /\ UNCHANGED <<byte, cls, input, l, text, locale, shown, mres, sres>>

Next == LFromBytes \/ LLoop \/ SMCall \/ SMLoop

Spec == Init /\ [][Next]_vars

\* Both parsers are straight-line loops over an in-memory string: a call that
\* has a step to take takes it.
SpecFair == Spec /\ WF_vars(Next)

(***************************************************************************)
(* SpecByte: ExtensionType::from_byte on every byte.                       *)
(***************************************************************************)
InitByte ==
    /\ byte \in Bytes
    /\ cls = ClsIdle
    /\ input = << >>
    /\ l = LIdle
    /\ sm = SMIdle
    /\ text = << >>
    /\ locale = LocaleIdle
    /\ shown = None
    /\ mres = MatchIdle
    /\ sres = SetIdle

Classify ==
    /\ cls = ClsIdle
    /\ cls' = from_byte(byte)
    /\ UNCHANGED <<byte, input, l, sm, text, locale, shown, mres, sres>>

NextByte == Classify

SpecByte == InitByte /\ [][NextByte]_vars

(***************************************************************************)
(* SpecLocale: a locale string is parsed, then displayed and matched.      *)
(***************************************************************************)
\* "en", "de-at"
Langs == { <<101, 110>>, <<100, 101, 45, 97, 116>> }

\* A language identifier alone, or followed by '-' and an extensions string.
LocaleTexts == Langs \cup { lang \o <<45>> \o e : lang \in Langs, e \in LocaleInputs }

\* The locales `matches` is called with as `other`:
\* "en", "en-x-ca", "en-u-ca", "de-at-t-foo-x-ca-foo".
OtherLocales ==
    { parse_locale(t).val :
        t \in { <<101, 110>>,
                <<101, 110, 45, 120, 45, 99, 97>>,
                <<101, 110, 45, 117, 45, 99, 97>>,
                <<100, 101, 45, 97, 116, 45, 116, 45, 102, 111, 111, 45, 120, 45, 99, 97,
                  45, 102, 111, 111>> } }

InitLocale ==
    /\ byte = 0
    /\ cls = ClsIdle
    /\ input = << >>
    /\ l = LIdle
    /\ sm = SMIdle
    /\ text \in LocaleTexts
    /\ locale = LocaleIdle
    /\ shown = None
    /\ mres = MatchIdle
    /\ sres = SetIdle

\* text.parse::<Locale>()
ParseLocale ==
    /\ locale = LocaleIdle
    /\ locale' = parse_locale(text)
    /\ UNCHANGED <<byte, cls, input, l, sm, text, shown, mres, sres>>

\* locale.to_string()
DisplayLocale ==
    /\ locale.ok
    /\ shown = None
    /\ shown' = Some(LocaleDisplay(locale.val))
    /\ UNCHANGED <<byte, cls, input, l, sm, text, locale, mres, sres>>

\* locale.matches(&other, self_as_range, other_as_range)
Matches ==
    /\ locale.ok
    /\ ~mres.done
    /\ \E other \in OtherLocales, self_as_range, other_as_range, langid_matches \in BOOLEAN :
          mres' = [done |-> TRUE, other |-> other, self_as_range |-> self_as_range,
                   other_as_range |-> other_as_range, langid_matches |-> langid_matches,
                   out |-> matches(locale.val, other, langid_matches)]
    /\ UNCHANGED <<byte, cls, input, l, sm, text, locale, shown, sres>>

NextLocale == ParseLocale \/ DisplayLocale \/ Matches

SpecLocale == InitLocale /\ [][NextLocale]_vars

(***************************************************************************)
(* SpecRound: an extensions string is parsed by ExtensionsMap::from_str    *)
(* and the map is serialized.                                              *)
(***************************************************************************)
\* "t", "u", "x", "U", "ca", "foo"
RoundTokens == { <<116>>, <<117>>, <<120>>, <<85>>, <<99, 97>>, <<102, 111, 111>> }

\* Token streams joined with '-', with or without a leading '-'.
RoundInputs ==
    { lead \o Join(ts, <<45>>) :
        lead \in { << >>, <<45>> },
        ts \in UNION { [1..n -> RoundTokens] : n \in 1..MaxRoundTokens } }

InitRound ==
    /\ byte = 0
    /\ cls = ClsIdle
    /\ input \in RoundInputs
    /\ l = LIdle
    /\ sm = SMIdle
    /\ text = << >>
    /\ locale = LocaleIdle
    /\ shown = None
    /\ mres = MatchIdle
    /\ sres = SetIdle

\* input.parse::<ExtensionsMap>() (extensions/mod.rs 112-118).
RoundParse ==
    /\ l.pc = "start"
    /\ l' = from_bytes(input)
    /\ UNCHANGED <<byte, cls, input, sm, text, locale, shown, mres, sres>>

\* map.to_string()
RoundDisplay ==
    /\ l.pc = "done"
    /\ l.ret = "Ok"
    /\ shown = None
    /\ shown' = Some(ExtensionsMapDisplay(l.result))
    /\ UNCHANGED <<byte, cls, input, l, sm, text, locale, mres, sres>>

NextRound == RoundParse \/ RoundDisplay

SpecRound == InitRound /\ [][NextRound]_vars

(***************************************************************************)
(* SpecSet: a locale string is parsed, then set_extension is called on the *)
(* locale.                                                                 *)
(***************************************************************************)
\* "en", "en-u-ca", "en-u-ca-foo", "en-t-foo-x-ca", "de-at-u-foo-t-ca-x-foo",
\* "de-at-x-ca-foo", "en-u-ca-foo-foo", "en-!"
SetTexts ==
    { <<101, 110>>,
      <<101, 110, 45, 117, 45, 99, 97>>,
      <<101, 110, 45, 117, 45, 99, 97, 45, 102, 111, 111>>,
      <<101, 110, 45, 116, 45, 102, 111, 111, 45, 120, 45, 99, 97>>,
      <<100, 101, 45, 97, 116, 45, 117, 45, 102, 111, 111, 45, 116, 45, 99, 97, 45, 120,
        45, 102, 111, 111>>,
      <<100, 101, 45, 97, 116, 45, 120, 45, 99, 97, 45, 102, 111, 111>>,
      <<101, 110, 45, 117, 45, 99, 97, 45, 102, 111, 111, 45, 102, 111, 111>>,
      <<101, 110, 45, 33>> }

SetExtensionTypes == { Unicode, Transform, Private, Other(97) }

\* "ca", "foo", "nu", "", "!"
SetKeys == { <<99, 97>>, <<102, 111, 111>>, <<110, 117>>, << >>, <<33>> }

\* None, Some("ca"), Some("foo"), Some("!")
SetValues == { None, Some(<<99, 97>>), Some(<<102, 111, 111>>), Some(<<33>>) }

InitSet ==
    /\ byte = 0
    /\ cls = ClsIdle
    /\ input = << >>
    /\ l = LIdle
    /\ sm = SMIdle
    /\ text \in SetTexts
    /\ locale = LocaleIdle
    /\ shown = None
    /\ mres = MatchIdle
    /\ sres = SetIdle

\* locale.set_extension(extension, key, value)
SetExtension ==
    /\ locale.ok
    /\ ~sres.done
    /\ \E extension \in SetExtensionTypes, key \in SetKeys, value \in SetValues :
          LET r == set_extension(locale.val, extension, key, value)
          IN  /\ locale' = Ok(r.locale)
              /\ sres' = [done |-> TRUE, before |-> locale.val, extension |-> extension,
                          key |-> key, value |-> value, ret |-> r.ret, calls |-> r.calls]
    /\ UNCHANGED <<byte, cls, input, l, sm, text, shown, mres>>

NextSet == ParseLocale \/ SetExtension

SpecSet == InitSet /\ [][NextSet]_vars

(***************************************************************************)
(* Properties.                                                             *)
(***************************************************************************)
\* The token stream of the input.
Toks == Split(input)

KnownSingletons == { <<116>>, <<117>>, <<120>> }

\* C1: from_byte is total; after ASCII lowercasing it gives Unicode for 'u',
\* Transform for 't', Private for 'x', Other(c) with c the lowercased
\* character for every other ASCII alphanumeric byte, InvalidExtension for
\* every remaining byte; Other never holds an uppercase character and Display
\* never renders one.
C1_FromByteClassifies ==
    cls # ClsIdle =>
        LET low == IF byte \in 65..90 THEN byte + 32 ELSE byte
            alnum == low \in 48..57 \/ low \in 97..122
        IN  /\ byte \in {117, 85} => cls = [ok |-> TRUE, val |-> [tag |-> "Unicode"]]
            /\ byte \in {116, 84} => cls = [ok |-> TRUE, val |-> [tag |-> "Transform"]]
            /\ byte \in {120, 88} => cls = [ok |-> TRUE, val |-> [tag |-> "Private"]]
            /\ (alnum /\ low \notin {116, 117, 120}) =>
                   /\ cls = [ok |-> TRUE, val |-> [tag |-> "Other", ch |-> low]]
                   /\ cls.val.ch \notin 65..90
            /\ ~alnum => cls = [ok |-> FALSE, err |-> "InvalidExtension"]
            /\ cls.ok => /\ Len(ExtensionTypeDisplay(cls.val)) = 1
                         /\ ExtensionTypeDisplay(cls.val)[1] \notin 65..90
                         /\ ExtensionTypeDisplay(cls.val)[1] = low

\* C1 witness: the uppercase byte 'A' has been classified as Other('a').
C1_Witness == byte = 65 /\ cls = Ok(Other(97))

\* C2: the empty string parses, in both modes, to Ok with the default map,
\* which is empty, and no collaborator is called.
C2_EmptyInput ==
    input = << >> =>
        /\ l.pc = "done" =>
              /\ l.ret = "Ok"
              /\ l.result = ExtensionsMapDefault
              /\ is_empty(l.result)
              /\ l.calls = << >>
        /\ sm.pc = "done" =>
              /\ sm.ret = "Ok"
              /\ sm.result = ExtensionsMapDefault
              /\ is_empty(sm.result)
              /\ sm.calls = << >>

\* C2 witness: both parsers have returned on the empty string.
C2_Witness == input = << >> /\ l.pc = "done" /\ sm.pc = "done"

RECURSIVE SingletonsOf(_)
\* The one-character tokens of a token stream, in order.
SingletonsOf(ts) ==
    IF Len(ts) = 0 THEN << >>
    ELSE (IF Len(Head(ts)) = 1 THEN << Head(ts) >> ELSE << >>) \o SingletonsOf(Tail(ts))

\* The singletons a serialized map must show: t, then u, then x, each only
\* when its list is not empty.
ExpectedSingletons(m) ==
    (IF Len(m.transform) > 0 THEN << <<116>> >> ELSE << >>)
        \o (IF Len(m.unicode) > 0 THEN << <<117>> >> ELSE << >>)
        \o (IF Len(m.private) > 0 THEN << <<120>> >> ELSE << >>)

\* One section: a known singleton followed by tokens that are not singletons.
IsSection(ts) ==
    /\ Len(ts) >= 1
    /\ ts[1] \in KnownSingletons
    /\ \A i \in 2..Len(ts) : Len(ts[i]) # 1

\* A sample of contents of the `other` map.
OtherSamples == { << >>, << <<97, << <<99, 97>> >> >> >> }

\* C3: a parsed map serializes its sections in the order transform, unicode,
\* private whatever the order of the input, writes nothing for `other`, and
\* two sections of different types given in either order serialize alike.
C3_SerializationOrder ==
    /\ (l.pc = "done" /\ l.ret = "Ok") =>
          /\ SingletonsOf(Split(ExtensionsMapDisplay(l.result))) = ExpectedSingletons(l.result)
          /\ \A o \in OtherSamples :
                ExtensionsMapDisplay([l.result EXCEPT !.other = o])
                    = ExtensionsMapDisplay(l.result)
          /\ \A k \in 1..(Len(Toks) - 1) :
                LET A == SubSeq(Toks, 1, k)
                    B == SubSeq(Toks, k + 1, Len(Toks))
                    r == from_bytes(Join(B \o A, <<45>>))
                IN  (IsSection(A) /\ IsSection(B) /\ A[1] # B[1]) =>
                        /\ r.ret = "Ok"
                        /\ ExtensionsMapDisplay(r.result) = ExtensionsMapDisplay(l.result)
    /\ (sm.pc = "done" /\ sm.ret = "Ok") =>
          SingletonsOf(Split(ExtensionsMapDisplay(sm.result))) = ExpectedSingletons(sm.result)

\* C3 witness: an input with the unicode section before the transform section
\* has been parsed and both lists hold something.
C3_Witness ==
    /\ l.pc = "done" /\ l.ret = "Ok"
    /\ Toks[1] = <<117>>
    /\ Len(l.result.unicode) > 0 /\ Len(l.result.transform) > 0

\* C4: in state-machine mode a non-empty input whose first token is not one
\* character long fails with InvalidSubtag before anything else is consumed,
\* and a token of a length other than 1 is accepted only with current_type set.
C4_NoSingletonFirst ==
    /\ [](( sm.pc = "done" /\ input # << >> /\ Len(Toks[1]) # 1 ) =>
            /\ sm.ret = "InvalidSubtag"
            /\ sm.rest = Toks
            /\ sm.calls = << >>
            /\ sm.result = ExtensionsMapDefault
            /\ sm.current_key = None)
    /\ [][( /\ sm.pc = "loop"
            /\ Len(sm.rest) > 0
            /\ Len(Head(sm.rest)) # 1
            /\ sm'.rest = Tail(sm.rest) ) => Len(sm.current_type) = 1]_vars

\* C4 witness: the input "ca-foo" has been refused.
C4_Witness == sm.pc = "done" /\ Toks = << <<99, 97>>, <<102, 111, 111>> >>

\* C5: in list-dispatch mode a token at dispatch position whose first byte
\* does not classify makes the parse return Err(InvalidExtension).
C5_InvalidDispatchByteIsErr ==
    ( /\ l.pc = "done"
      /\ Len(l.st) = 1
      /\ Len(l.st[1]) > 0
      /\ ~is_ascii_alphanumeric(l.st[1][1]) ) => l.ret = "InvalidExtension"

\* C6: in state-machine mode a one-character token that does not classify
\* ends the parse with InvalidExtension whatever current_type and current_key
\* are, and every parse that fails with a section open fails with
\* InvalidExtension.
C6_InvalidSingleton ==
    /\ [][( /\ sm.pc = "loop"
            /\ Len(sm.rest) > 0
            /\ Len(Head(sm.rest)) = 1
            /\ ~is_ascii_alphanumeric(Head(sm.rest)[1]) ) =>
              (sm'.pc = "done" /\ sm'.ret = "InvalidExtension")]_vars
    /\ [][( /\ sm.pc = "loop"
            /\ Len(sm.current_key) = 1
            /\ \/ ~ValidSubtag(sm.current_key[1])
               \/ Len(sm.rest) > 0 /\ Len(Head(sm.rest)) # 1 /\ ~ValidSubtag(Head(sm.rest)) ) =>
              (sm'.pc = "done" /\ sm'.ret = "InvalidExtension")]_vars
    /\ [](sm.ret \in {"none", "Ok", "InvalidExtension", "InvalidSubtag"})

\* C6 witness: "!" arrived while a key was pending in an open section.
C6_Witness ==
    /\ sm.pc = "done" /\ sm.ret = "InvalidExtension"
    /\ Len(sm.rest) > 0 /\ Head(sm.rest) = <<33>>
    /\ Len(sm.calls) = 1

\* A key is pending and the next event is a singleton or the end of input.
PendingKeyFlushDue ==
    /\ sm.pc = "loop"
    /\ Len(sm.current_key) = 1
    /\ Len(sm.rest) = 0 \/ Len(Head(sm.rest)) = 1

\* The call set_<type>_value(key, None) on the section open now.
FlushCall == [type |-> sm.current_type[1].tag, key |-> sm.current_key[1], value |-> None]

\* C7 as stated: whenever a key is pending and a singleton or the end of input
\* comes next, exactly one set_<type>_value(key, None) call is made on the
\* section that was open when the key was read.
C7_AlwaysOneCall ==
    [][PendingKeyFlushDue => sm'.calls = Append(sm.calls, FlushCall)]_vars

\* C7 amended: that call is made exactly once unless the section is Unicode
\* and the key does not parse as a Unicode extension key, in which case no
\* call is made and the parse ends with InvalidExtension; an accepted call
\* records the key with no value and does not fail the parse.
C7_OneCallUnlessKeyUnparsed ==
    [][PendingKeyFlushDue =>
          IF sm.current_type[1].tag = "Unicode" /\ ~ValidSubtag(sm.current_key[1])
          THEN sm'.calls = sm.calls /\ sm'.pc = "done" /\ sm'.ret = "InvalidExtension"
          ELSE /\ sm'.calls = Append(sm.calls, FlushCall)
               /\ ValidSubtag(sm.current_key[1]) =>
                     /\ LET bucket == CASE sm.current_type[1].tag = "Unicode" -> sm'.result.unicode
                                        [] sm.current_type[1].tag = "Transform" -> sm'.result.transform
                                        [] sm.current_type[1].tag = "Private" -> sm'.result.private
                        IN  \E i \in 1..Len(bucket) :
                                bucket[i] = [key |-> sm.current_key[1], value |-> None]
                     /\ Len(sm.rest) = 0 => (sm'.pc = "done" /\ sm'.ret = "Ok")
                     /\ (Len(sm.rest) > 0 /\ Head(sm.rest) \in KnownSingletons) => sm'.pc = "loop"]_vars

\* C7 witness: a key of the transform section was flushed, with no value, by
\* the singleton that opens the unicode section.
C7_Witness ==
    /\ sm.pc = "loop"
    /\ sm.current_type = << [tag |-> "Unicode"] >>
    /\ sm.calls = << [type |-> "Transform", key |-> <<99, 97>>, value |-> None] >>

\* C9: is_empty is true exactly when the unicode, transform and private lists
\* are all empty, whatever `other` holds, and a parse that succeeds on an
\* input without any key or value token returns an empty map.
C9_IsEmpty ==
    /\ \A m \in {l.result, sm.result} :
          /\ is_empty(m) <=>
                (Len(m.unicode) = 0 /\ Len(m.transform) = 0 /\ Len(m.private) = 0)
          /\ \A o \in OtherSamples : is_empty([m EXCEPT !.other = o]) <=> is_empty(m)
    /\ (l.pc = "done" /\ l.ret = "Ok" /\ \A i \in 1..Len(Toks) : Len(Toks[i]) <= 1)
          => is_empty(l.result)
    /\ (sm.pc = "done" /\ sm.ret = "Ok" /\ \A i \in 1..Len(Toks) : Len(Toks[i]) <= 1)
          => is_empty(sm.result)

\* C9 witness: a parse has returned a map whose only non-empty list is the
\* private one.
C9_Witness ==
    /\ sm.pc = "done" /\ sm.ret = "Ok"
    /\ Len(sm.result.private) > 0
    /\ Len(sm.result.unicode) = 0 /\ Len(sm.result.transform) = 0

\* C8: matches answers false whenever the private list of self or of other is
\* not empty, for every pair of range flags and whatever the language
\* identifiers answer; with both private lists empty it answers what the
\* language identifiers answer, whatever the unicode and transform lists hold.
C8_MatchesPrivacy ==
    mres.done =>
        /\ (Len(locale.val.extensions.private) > 0 \/ Len(mres.other.extensions.private) > 0)
              => mres.out = FALSE
        /\ (Len(locale.val.extensions.private) = 0 /\ Len(mres.other.extensions.private) = 0)
              => mres.out = mres.langid_matches

\* C8 witness: self has a unicode list and no private list, other has a
\* private list, the language identifiers match, and the answer is false.
C8_Witness ==
    /\ mres.done
    /\ Len(locale.val.extensions.unicode) > 0
    /\ Len(locale.val.extensions.private) = 0
    /\ Len(mres.other.extensions.private) > 0
    /\ mres.self_as_range /\ mres.other_as_range
    /\ mres.langid_matches
    /\ mres.out = FALSE

\* C10: Display of a Locale is the language identifier alone when the
\* extensions serialize to nothing, else the language identifier, a single
\* '-' and the extensions; exactly one separator stands between the language
\* identifier and the first extension singleton, and parsing the displayed
\* form gives back an equal Locale.
C10_DisplayRoundTrip ==
    IsSome(shown) =>
        LET lang == LangidDisplay(locale.val.langid)
            ext == ExtensionsMapDisplay(locale.val.extensions)
            out == Unwrap(shown)
        IN  /\ Len(ext) = 0 => out = lang
            /\ Len(ext) > 0 =>
                  /\ out = lang \o <<45>> \o ext
                  /\ out[Len(lang) + 1] \in SEPARATORS
                  /\ out[Len(lang) + 2] \notin SEPARATORS
            /\ parse_locale(out) = Ok(locale.val)

\* The positions of the one-character tokens of a token stream.
SingletonPositions(ts) == { i \in 1..Len(ts) : Len(ts[i]) = 1 }

\* The end of the section that starts at position i.
SectionEnd(ts, i) ==
    IF \E j \in SingletonPositions(ts) : j > i
    THEN (CHOOSE j \in SingletonPositions(ts) :
              j > i /\ \A k \in SingletonPositions(ts) : k > i => j <= k) - 1
    ELSE Len(ts)

\* Within every section the keys (first, third, ... token after the singleton)
\* are pairwise different.
KeysUnique(ts) ==
    \A i \in SingletonPositions(ts) :
        \A a, b \in (i + 1)..SectionEnd(ts, i) :
            (a < b /\ (a - i) % 2 = 1 /\ (b - i) % 2 = 1) => ts[a] # ts[b]

\* A canonical extensions string: every section written as "-<singleton>"
\* followed by its "-<subtag>"s, lowercase, sections in the order t, u, x,
\* each at most once and none empty, keys unique within a section.
Canonical(str) ==
    LET ts == Tail(Split(str))
    IN  /\ Len(str) > 0
        /\ Split(str)[1] = << >>
        /\ Len(ts) > 0
        /\ Len(ts[1]) = 1
        /\ Len(ts[Len(ts)]) # 1
        /\ \A i \in 1..Len(ts) :
              /\ Len(ts[i]) > 0
              /\ \A j \in 1..Len(ts[i]) : ts[i][j] \in 48..57 \/ ts[i][j] \in 97..122
        /\ \A i \in SingletonPositions(ts) :
              /\ ts[i][1] \in {116, 117, 120}
              /\ (i + 1) \notin SingletonPositions(ts)
              /\ \A j \in SingletonPositions(ts) : i < j => ts[i][1] < ts[j][1]
        /\ KeysUnique(ts)

\* C11: parsing a canonical extensions string and serializing the map gives
\* the string back.
C11_RoundTrip ==
    Canonical(input) =>
        /\ l.pc = "done" => l.ret = "Ok"
        /\ IsSome(shown) => Unwrap(shown) = input

\* C11 witness: "-t-ca-u-foo" has been parsed and serialized.
C11_Witness ==
    /\ IsSome(shown)
    /\ input = <<45, 116, 45, 99, 97, 45, 117, 45, 102, 111, 111>>

\* C12: for every string a parser accepts (keys unique within a section),
\* parsing the serialized form of the parsed map succeeds and gives an equal
\* map, with either parser.
C12_Idempotent ==
    /\ (l.pc = "done" /\ l.ret = "Ok" /\ KeysUnique(Toks)) =>
          LET r == from_bytes(ExtensionsMapDisplay(l.result))
          IN  r.ret = "Ok" /\ r.result = l.result
    /\ (sm.pc = "done" /\ sm.ret = "Ok" /\ KeysUnique(Toks)) =>
          LET r == parse_extension_subtags(ExtensionsMapDisplay(sm.result))
          IN  r.ret = "Ok" /\ r.result = sm.result


\* A well-formed, lowercase token stream: it opens with a section singleton,
\* every singleton is u, t or x, and every token is a non-empty run of
\* lowercase letters and digits.
WellFormed(ts) ==
    /\ Len(ts) > 0
    /\ ts[1] \in KnownSingletons
    /\ \A i \in 1..Len(ts) :
          /\ Len(ts[i]) > 0
          /\ \A j \in 1..Len(ts[i]) : ts[i][j] \in 48..57 \/ ts[i][j] \in 97..122
          /\ Len(ts[i]) = 1 => ts[i] \in KnownSingletons

\* C13: once both modes have finished on the same token stream, a well-formed
\* stream made both succeed with equal maps, and on any stream a rejection by
\* one mode means the other mode did not return a map.
C13_ModesAgree ==
    (l.pc = "done" /\ sm.pc = "done") =>
        /\ WellFormed(Toks) =>
              /\ l.ret = "Ok"
              /\ sm.ret = "Ok"
              /\ l.result = sm.result
        /\ l.ret \in {"InvalidExtension", "InvalidSubtag"} => sm.ret # "Ok"
        /\ sm.ret \in {"InvalidExtension", "InvalidSubtag"} => l.ret # "Ok"

\* C14: after set_extension with ExtensionType::Unicode, a key that does not
\* parse gave the key-parse error, no set_unicode_value call and an unchanged
\* locale; a key that parses gave exactly one set_unicode_value call with that
\* key and the given value, and nothing but the unicode bucket differs.
C14_SetExtensionFrame ==
    (sres.done /\ sres.extension = Unicode) =>
        /\ ~ValidSubtag(sres.key) =>
              /\ sres.ret = "key"
              /\ sres.calls = << >>
              /\ locale.val = sres.before
        /\ ValidSubtag(sres.key) =>
              /\ sres.calls = << [type |-> "Unicode", key |-> sres.key, value |-> sres.value] >>
              /\ locale.val.langid = sres.before.langid
              /\ locale.val.extensions.transform = sres.before.extensions.transform
              /\ locale.val.extensions.private = sres.before.extensions.private
              /\ locale.val.extensions.other = sres.before.extensions.other
              /\ sres.ret = "Ok" =>
                    \E i \in 1..Len(locale.val.extensions.unicode) :
                        locale.val.extensions.unicode[i] = Entry(sres.key, sres.value)

\* C14 witness: on a locale with a transform section, set_extension(Unicode,
\* "nu", None) has returned Ok and the locale differs from the one before.
C14_Witness ==
    /\ sres.done
    /\ sres.extension = Unicode
    /\ Len(sres.before.extensions.transform) > 0
    /\ sres.key = <<110, 117>>
    /\ sres.value = None
    /\ sres.ret = "Ok"
    /\ locale.val # sres.before

to_ascii_uppercase(b) == IF b \in 97..122 THEN b - 32 ELSE b

\* The extension tail upper-cased, and with every '-' replaced by '_'.
UpperCased(e) == [i \in 1..Len(e) |-> to_ascii_uppercase(e[i])]

Underscored(e) == [i \in 1..Len(e) |-> IF e[i] = 45 THEN 95 ELSE e[i]]

\* The language part and the extension tail of the text being parsed.
TextLang == CHOOSE lang \in Langs : SubSeq(text, 1, Len(lang)) = lang

TextTail == SubSeq(text, Len(TextLang) + 2, Len(text))

\* Same outcome: equal locales, or an error on both sides.
SameOutcome(a, b) == (a.ok /\ b.ok /\ a.val = b.val) \/ (~a.ok /\ ~b.ok)

\* C15: once a locale with an extension tail has been parsed, parsing it with
\* the tail upper-cased, and with the tail's '-' replaced by '_', gives the
\* same outcome: equal extension maps, or an error in all three cases.
C15_CaseAndSeparator ==
    (locale # LocaleIdle /\ Len(text) > Len(TextLang)) =>
        /\ SameOutcome(locale, parse_locale(TextLang \o <<45>> \o UpperCased(TextTail)))
        /\ SameOutcome(locale, parse_locale(TextLang \o <<45>> \o Underscored(TextTail)))

\* C15 witness: "en-u-ca-foo" has been parsed to a locale with a unicode
\* section; its variants "en-U-CA-FOO" and "en-u_ca_foo" differ from it as
\* strings.
C15_Witness ==
    /\ text = <<101, 110, 45, 117, 45, 99, 97, 45, 102, 111, 111>>
    /\ locale.ok
    /\ Len(locale.val.extensions.unicode) > 0
    /\ UpperCased(TextTail) # TextTail
    /\ Underscored(TextTail) # TextTail

\* The token being dispatched in list-dispatch mode classifies as Other(c).
DispatchesOther ==
    /\ l.pc = "loop"
    /\ IsSome(l.st)
    /\ Len(Unwrap(l.st)) > 0
    /\ from_byte(Unwrap(l.st)[1]).ok
    /\ from_byte(Unwrap(l.st)[1]).val.tag = "Other"

\* C16: in list-dispatch mode a dispatch token classifying as Other(c) calls
\* no collaborator and collects nothing, the loop goes on to the next token,
\* and every successful parse returns a map whose `other` is empty.
C16_OtherIsSkipped ==
    /\ []((l.pc = "done" /\ l.ret = "Ok") => l.result.other = << >>)
    /\ [][DispatchesOther =>
            /\ l'.calls = l.calls
            /\ l'.result = l.result
            /\ l'.pc = "loop"
            /\ l'.st = IterNext(l.iter).item
            /\ l'.iter = IterNext(l.iter).iter]_vars

SectionName(singleton) ==
    CASE singleton = <<117>> -> "Unicode"
      [] singleton = <<116>> -> "Transform"
      [] singleton = <<120>> -> "Private"
      [] OTHER -> "none"

RECURSIVE PairedCalls(_, _, _)
\* The set_<type>_value calls of a token stream when the tokens after each
\* singleton are taken two by two, key then value, a last odd one alone.
PairedCalls(ts, i, section) ==
    IF i > Len(ts) THEN << >>
    ELSE IF Len(ts[i]) = 1 THEN PairedCalls(ts, i + 1, SectionName(ts[i]))
    ELSE IF i < Len(ts) /\ Len(ts[i + 1]) # 1
    THEN << [type |-> section, key |-> ts[i], value |-> Some(ts[i + 1])] >>
             \o PairedCalls(ts, i + 2, section)
    ELSE << [type |-> section, key |-> ts[i], value |-> None] >>
             \o PairedCalls(ts, i + 1, section)

\* The tokens the state machine reads: none for the empty string (line 23).
SMToks == IF Len(input) = 0 THEN << >> ELSE Toks

\* The state machine is about to read a non-singleton token and goes on.
ReadsSubtag ==
    /\ sm.pc = "loop"
    /\ Len(sm.rest) > 0
    /\ Len(Head(sm.rest)) # 1
    /\ sm'.pc = "loop"

\* C17: in state-machine mode a non-singleton token read with no pending key
\* becomes the pending key and no call is made; read with a pending key it is
\* passed as the value of that key in one set_<type>_value call and
\* current_key is cleared; and a successful parse has made exactly the calls
\* that pair the tokens of each section two by two, so that no key got more
\* than one value token and each non-singleton token is in exactly one call.
C17_StrictAlternation ==
    /\ []((sm.pc = "done" /\ sm.ret = "Ok") => sm.calls = PairedCalls(SMToks, 1, "none"))
    /\ [][ReadsSubtag =>
            IF ~IsSome(sm.current_key)
            THEN /\ sm'.current_key = Some(Head(sm.rest))
                 /\ sm'.calls = sm.calls
            ELSE /\ sm'.current_key = None
                 /\ sm'.calls = Append(sm.calls,
                                       [type |-> Unwrap(sm.current_type).tag,
                                        key |-> Unwrap(sm.current_key),
                                        value |-> Some(Head(sm.rest))])]_vars

\* C17 witness: "t-ca-foo-foo" has been parsed: ca got the value foo, and the
\* second foo was flushed as a key of its own at the end of input.
C17_Witness ==
    /\ input = <<116, 45, 99, 97, 45, 102, 111, 111, 45, 102, 111, 111>>
    /\ sm.pc = "done"
    /\ sm.ret = "Ok"
    /\ sm.calls = << [type |-> "Transform", key |-> <<99, 97>>, value |-> Some(<<102, 111, 111>>)],
                     [type |-> "Transform", key |-> <<102, 111, 111>>, value |-> None] >>

\* Tokens list-dispatch mode has not consumed yet: the one in `st` and those
\* left in the iterator.
LRemaining(s) == Len(s.iter) + Len(s.st)

\* C18: both parsers terminate; each turn of either loop consumes at least one
\* token, so that a parse started on n tokens is over within n turns and the
\* final return or flush; a parse ends with Ok or Err; and the outcome is that
\* of any other string with the same token stream.
C18_Terminates ==
    /\ <>[](l.pc = "done" /\ sm.pc = "done")
    /\ [](l.pc = "loop" => LRemaining(l) <= Len(Toks))
    /\ [](sm.pc = "loop" => Len(sm.rest) <= Len(Toks))
    /\ [][(l.pc = "loop" /\ l'.pc = "loop") => LRemaining(l') < LRemaining(l)]_vars
    /\ [][(sm.pc = "loop" /\ sm'.pc = "loop") => Len(sm'.rest) < Len(sm.rest)]_vars
    /\ [](l.pc = "done" => l.ret \in {"Ok", "InvalidExtension", "InvalidSubtag"})
    /\ [](sm.pc = "done" => sm.ret \in {"Ok", "InvalidExtension", "InvalidSubtag"})
    /\ [](l.pc = "done" =>
            LET r == from_bytes(Underscored(input))
            IN  r.ret = l.ret /\ r.result = l.result)
    /\ [](sm.pc = "done" =>
            LET r == parse_extension_subtags(Underscored(input))
            IN  r.ret = sm.ret /\ r.result = sm.result)

\* The state in which the exits of lines 52 and 103 are taken: a key is
\* pending and no section is open.
KeyWithoutType == IsSome(sm.current_key) /\ ~IsSome(sm.current_type)

\* C19: in every state of parse_extension_subtags a pending current_key comes
\* with a current_type, and current_type, once set, stays set; so no parse
\* ends through the `else` of line 52 or of line 103: InvalidSubtag is only
\* returned for a non-singleton token met with no open section (line 80), and
\* InvalidExtension at a singleton only with a section open or no key pending.
C19_KeyImpliesType ==
    /\ [](~KeyWithoutType)
    /\ [][IsSome(sm.current_type) => IsSome(sm'.current_type)]_vars
    /\ [][(sm.pc = "loop" /\ sm'.pc = "done" /\ sm'.ret = "InvalidSubtag") =>
            /\ Len(sm.rest) > 0
            /\ Len(Head(sm.rest)) # 1
            /\ ~IsSome(sm.current_type)
            /\ ~IsSome(sm.current_key)]_vars
    /\ [][(sm.pc = "loop" /\ sm'.pc = "done" /\ sm'.ret = "InvalidExtension") =>
            /\ Len(sm.rest) > 0 \/ IsSome(sm.current_key)
            /\ IsSome(sm.current_key) => IsSome(sm.current_type)]_vars

\* C19 witness: "u-ca-t-foo" has been parsed: the key ca was flushed at the
\* singleton t and the key foo at the end of input, each into its section.
C19_Witness ==
    /\ input = <<117, 45, 99, 97, 45, 116, 45, 102, 111, 111>>
    /\ sm.pc = "done"
    /\ sm.ret = "Ok"
    /\ sm.calls = << [type |-> "Unicode", key |-> <<99, 97>>, value |-> None],
                     [type |-> "Transform", key |-> <<102, 111, 111>>, value |-> None] >>
    /\ sm.current_type = Some(Transform)

\* A known singleton opens two sections of the token stream.
RepeatedSingleton(ts) ==
    \E i, j \in SingletonPositions(ts) : i < j /\ ts[i] = ts[j] /\ ts[i] \in KnownSingletons

\* C20: when the same known singleton opens two sections, list-dispatch mode,
\* which assigns the bucket anew at each section, and state-machine mode,
\* which adds every section's pairs to the same bucket, still end with equal
\* maps, unless the input is rejected.
C20_RepeatedSingleton ==
    (l.pc = "done" /\ sm.pc = "done" /\ RepeatedSingleton(Toks)) =>
        \/ l.ret # "Ok"
        \/ sm.ret # "Ok"
        \/ l.result = sm.result
====
